---- MODULE Spec2Model ----
(***************************************************************************)
(* A model of gh_issues.py: the issue fetcher (fetch_issues), the Textual  *)
(* controller IssuesApp with its DataTable, the thread workers started by  *)
(* load_issues, and the key-bound handlers action_open_issue,              *)
(* action_refresh and quit.                                                *)
(*                                                                         *)
(* Threads.  load_issues is decorated @work(thread=True): every call       *)
(* starts a worker thread that runs the WHOLE body of load_issues, the     *)
(* table.clear(), the assignment to self.issues and every table.add_row    *)
(* included.  The decorator's defaults are exclusive=False (a new worker   *)
(* cancels nothing) and exit_on_error=True (an exception that leaves the   *)
(* body ends the application).  The handlers run on the UI thread.  Each   *)
(* action below is one step between two accesses to the shared objects     *)
(* (self.issues, the DataTable); the steps of different threads interleave *)
(* freely.                                                                 *)
(***************************************************************************)
EXTENDS Integers, Sequences, FiniteSets, TLC

VARIABLES
    app,            \* "constructed" (after __init__), "running" (mounted), "exited"
    exitReason,     \* "none", "quit" or "worker_error"
    issues,         \* self.issues
    rows,           \* the DataTable's rows, in display order: [key, cells]
    cursor_row,     \* DataTable.cursor_row
    workers,        \* one record per load_issues worker thread, oldest first
    uiPc,           \* where the UI thread stands: "idle" or "open_lookup" (before line 183)
    handler,        \* the handler the UI thread ran last: "none", "open", "refresh", "quit", "cursor"
    notifications,  \* what self.notify was given by that handler, in order
    launched,       \* the URLs webbrowser.open was given by that handler
    issuesWriter,   \* the thread that wrote self.issues last: "ui" or "worker"
    tableWriter,    \* the thread that mutated the DataTable last: "ui" or "worker"
    gh              \* the environment: the outcomes `gh issue list` can have in this run

vars == <<app, exitReason, issues, rows, cursor_row, workers, uiPc, handler,
          notifications, launched, issuesWriter, tableWriter, gh>>

(***************************************************************************)
(* Bounds of the model.                                                    *)
(***************************************************************************)
\* load_issues workers started in one run: on_mount's and the refreshes'.
MaxWorkers == 2

\* Entries of the JSON array gh prints, where every array is tried (FetchSpec).
MaxItems == 2

(***************************************************************************)
(* Program constants.                                                      *)
(***************************************************************************)
TitleMax == 80
TitleCut == 77

(***************************************************************************)
(* Text helpers.  Strings are Python str values; Len, SubSeq and \o act on *)
(* them character by character.                                            *)
(***************************************************************************)
Digits == <<"0", "1", "2", "3", "4", "5", "6", "7", "8", "9">>

\* str(n) of a non-negative int.
RECURSIVE Str(_)
Str(n) == IF n < 10 THEN Digits[n + 1] ELSE Str(n \div 10) \o Digits[(n % 10) + 1]

\* sub in s
Contains(s, sub) ==
    \E i \in 1..(Len(s) - Len(sub) + 1) : SubSeq(s, i, i + Len(sub) - 1) = sub

\* s.replace(old, new) for a one-character old: the characters from position i on.
RECURSIVE ReplaceFrom(_, _, _, _)
ReplaceFrom(s, i, old, new) ==
    IF i > Len(s) THEN ""
    ELSE (IF SubSeq(s, i, i) = old THEN new ELSE SubSeq(s, i, i))
         \o ReplaceFrom(s, i + 1, old, new)

Replace(s, old, new) == ReplaceFrom(s, 1, old, new)

\* sep.join(parts)
RECURSIVE Join(_, _)
Join(sep, parts) ==
    IF Len(parts) = 0 THEN ""
    ELSE IF Len(parts) = 1 THEN parts[1]
    ELSE parts[1] \o sep \o Join(sep, Tail(parts))

IsDigit(c) == \E d \in 1..10 : Digits[d] = c

DigitVal(c) == (CHOOSE d \in 1..10 : Digits[d] = c) - 1

AllDigits(s) == \A i \in 1..Len(s) : IsDigit(SubSeq(s, i, i))

\* int(s) of a text of digits: the value of its first k characters.
RECURSIVE ToIntUpTo(_, _)
ToIntUpTo(s, k) ==
    IF k = 0 THEN 0 ELSE 10 * ToIntUpTo(s, k - 1) + DigitVal(SubSeq(s, k, k))

ToInt(s) == ToIntUpTo(s, Len(s))

\* Zero-padded to width w (strftime's %Y, %m, %d).
RECURSIVE PadZero(_, _)
PadZero(s, w) == IF Len(s) >= w THEN s ELSE PadZero("0" \o s, w)

(***************************************************************************)
(* datetime.fromisoformat and strftime("%Y-%m-%d") (lines 148-149).        *)
(* The accepted texts are those of date.isoformat / datetime.isoformat:    *)
(* YYYY-MM-DD, optionally one separator character and HH:MM or HH:MM:SS,   *)
(* optionally a +HH:MM or -HH:MM offset.  Anything else is a ValueError.   *)
(***************************************************************************)
IsLeap(y) == (y % 4 = 0 /\ y % 100 # 0) \/ y % 400 = 0

DaysInMonth(y, m) ==
    IF m = 2 THEN (IF IsLeap(y) THEN 29 ELSE 28)
    ELSE IF m \in {4, 6, 9, 11} THEN 30 ELSE 31

DateTextOk(d) ==
    /\ Len(d) = 10
    /\ AllDigits(SubSeq(d, 1, 4)) /\ SubSeq(d, 5, 5) = "-"
    /\ AllDigits(SubSeq(d, 6, 7)) /\ SubSeq(d, 8, 8) = "-"
    /\ AllDigits(SubSeq(d, 9, 10))
    /\ ToInt(SubSeq(d, 1, 4)) >= 1
    /\ ToInt(SubSeq(d, 6, 7)) \in 1..12
    /\ ToInt(SubSeq(d, 9, 10)) \in 1..DaysInMonth(ToInt(SubSeq(d, 1, 4)), ToInt(SubSeq(d, 6, 7)))

ClockTextOk(t) ==
    /\ Len(t) \in {5, 8}
    /\ AllDigits(SubSeq(t, 1, 2)) /\ SubSeq(t, 3, 3) = ":" /\ AllDigits(SubSeq(t, 4, 5))
    /\ ToInt(SubSeq(t, 1, 2)) < 24 /\ ToInt(SubSeq(t, 4, 5)) < 60
    /\ (Len(t) = 8 =>
          /\ SubSeq(t, 6, 6) = ":" /\ AllDigits(SubSeq(t, 7, 8))
          /\ ToInt(SubSeq(t, 7, 8)) < 60)

OffsetTextOk(o) ==
    /\ Len(o) = 6
    /\ SubSeq(o, 1, 1) \in {"+", "-"}
    /\ ClockTextOk(SubSeq(o, 2, 6))

\* The time part with its offset: the text after the separator.
TimeTextOk(t) ==
    \/ ClockTextOk(t)
    \/ /\ Len(t) > 6
       /\ ClockTextOk(SubSeq(t, 1, Len(t) - 6))
       /\ OffsetTextOk(SubSeq(t, Len(t) - 5, Len(t)))

\* Whether datetime.fromisoformat(s) returns (TRUE) or raises ValueError.
IsoFormatOk(s) ==
    /\ Len(s) >= 10
    /\ DateTextOk(SubSeq(s, 1, 10))
    /\ (Len(s) > 10 => Len(s) > 11 /\ TimeTextOk(SubSeq(s, 12, Len(s))))

\* date.strftime("%Y-%m-%d") of the parsed value; the offset does not move the date.
StrfDate(s) ==
    PadZero(Str(ToInt(SubSeq(s, 1, 4))), 4) \o "-"
    \o PadZero(Str(ToInt(SubSeq(s, 6, 7))), 2) \o "-"
    \o PadZero(Str(ToInt(SubSeq(s, 9, 10))), 2)

\* fromisoformat then strftime of a text: [ok |-> FALSE] stands for the ValueError.
ParseAndFormat(iso) ==
    IF IsoFormatOk(iso) THEN [ok |-> TRUE, text |-> StrfDate(iso)]
    ELSE [ok |-> FALSE, text |-> ""]

\* Lines 148-149.  (iso ranges over a one-element set: the replaced text is
\* computed once.)
FormatDate(created_at) ==
    CHOOSE r \in {ParseAndFormat(iso) : iso \in {Replace(created_at, "Z", "+00:00")}} : TRUE

\* A cut that takes a title of TitleMax characters for a long one.
TruncateTitleFromMax(title) ==
    IF Len(title) >= TitleMax THEN SubSeq(title, 1, TitleCut) \o "..." ELSE title

\* Lines 155-157.
TruncateTitle(title) ==
    IF Len(title) > TitleMax THEN SubSeq(title, 1, TitleCut) \o "..." ELSE title

\* Line 152.
LabelsStr(labels) == IF Len(labels) > 0 THEN Join(", ", labels) ELSE ""

(***************************************************************************)
(* What `gh issue list --json ...` can do (lines 31-36), as subprocess.run *)
(* reports it: kind "exit0" with its stdout, kind "nonzero" (check=True    *)
(* raises CalledProcessError) with its stderr, kind "enoent" (no gh        *)
(* executable: FileNotFoundError).  stdout is [valid, items]: whether      *)
(* json.loads accepts it and the array it holds.                           *)
(***************************************************************************)
Item1 ==
    [number |-> 1, title |-> "Crash on start", createdAt |-> "2024-03-05T10:00:00Z",
     labels |-> <<[name |-> "bug"], [name |-> "ui"]>>,
     url |-> "https://github.com/acme/widgets/issues/1"]

Item12 ==
    [number |-> 12, title |-> "Add dark mode", createdAt |-> "2024-04-30T23:59:59Z",
     labels |-> <<>>,
     url |-> "https://github.com/acme/widgets/issues/12"]

\* An entry whose createdAt datetime.fromisoformat rejects.
ItemBadDate ==
    [number |-> 7, title |-> "Imported issue", createdAt |-> "2024-02-30T10:00:00Z",
     labels |-> <<[name |-> "import"]>>,
     url |-> "https://github.com/acme/widgets/issues/7"]

\* An entry without "url".
ItemNoUrl ==
    [number |-> 9, title |-> "Partial entry", createdAt |-> "2024-05-01T08:00:00Z",
     labels |-> <<>>]

Exit0(items) == [kind |-> "exit0", stdout |-> [valid |-> TRUE, items |-> items], stderr |-> ""]

CmdBadJson == [kind |-> "exit0", stdout |-> [valid |-> FALSE, items |-> <<>>], stderr |-> ""]

CmdNotGit ==
    [kind |-> "nonzero", stdout |-> [valid |-> FALSE, items |-> <<>>],
     stderr |-> "fatal: not a git repository (or any of the parent directories): .git"]

CmdAuth ==
    [kind |-> "nonzero", stdout |-> [valid |-> FALSE, items |-> <<>>],
     stderr |-> "HTTP 401: Bad credentials"]

CmdNoGh == [kind |-> "enoent", stdout |-> [valid |-> FALSE, items |-> <<>>], stderr |-> ""]

\* str(e) of the CalledProcessError: the command line and the exit status, not stderr.
CalledProcessErrorStr ==
    "Command '['gh', 'issue', 'list', '--limit', '10', '--json', 'number,title,createdAt,labels,url']' returned non-zero exit status 1."

\* str(e) of the FileNotFoundError.
FileNotFoundErrorStr == "[Errno 2] No such file or directory: 'gh'"

(***************************************************************************)
(* fetch_issues (lines 28-64).  The result is [ok, issues, error]: the     *)
(* returned list, or the message of the RuntimeError raised.               *)
(***************************************************************************)
Raise(msg) == [ok |-> FALSE, issues |-> <<>>, error |-> msg]

Return(list) == [ok |-> TRUE, issues |-> list, error |-> ""]

\* The keys of an entry read with item[...], in the order lines 44-48 read them.
RequiredKeys == <<"number", "title", "createdAt", "url">>

MissingKeys(item) == {i \in 1..Len(RequiredKeys) : RequiredKeys[i] \notin DOMAIN item}

\* An Issue whose label names come out in reverse order.
MakeIssueLabelsReversed(item) ==
    [number |-> item.number,
     title |-> item.title,
     created_at |-> item.createdAt,
     labels |-> IF "labels" \in DOMAIN item
                THEN [k \in 1..Len(item.labels) |->
                          item.labels[Len(item.labels) + 1 - k].name]
                ELSE <<>>,
     url |-> item.url]

\* Lines 42-49.
MakeIssue(item) ==
    [number |-> item.number,
     title |-> item.title,
     created_at |-> item.createdAt,
     labels |-> IF "labels" \in DOMAIN item
                THEN [k \in 1..Len(item.labels) |-> item.labels[k].name]
                ELSE <<>>,
     url |-> item.url]

\* Lines 41-50, up to the first entry that raises KeyError.
RECURSIVE ParseItems(_, _)
ParseItems(items, acc) ==
    IF Len(items) = 0 THEN Return(acc)
    ELSE IF MissingKeys(Head(items)) # {}
    THEN LET first == CHOOSE i \in MissingKeys(Head(items)) :
                          \A j \in MissingKeys(Head(items)) : i <= j
         IN  Raise("Unexpected error: '" \o RequiredKeys[first] \o "'")
    ELSE ParseItems(Tail(items), Append(acc, MakeIssue(Head(items))))

\* A fetch that classifies the error stream by "gh: command not found" first.
fetch_issues_not_found_first(cmd) ==
    IF cmd.kind = "nonzero"
    THEN IF Contains(cmd.stderr, "gh: command not found")
         THEN Raise("gh CLI not found. Please install GitHub CLI: https://cli.github.com")
         ELSE IF Contains(cmd.stderr, "not a git repository")
         THEN Raise("Not in a git repository")
         ELSE Raise("Failed to fetch issues: " \o cmd.stderr)
    ELSE IF cmd.kind = "enoent"
    THEN Raise("Unexpected error: " \o FileNotFoundErrorStr)
    ELSE IF ~cmd.stdout.valid
    THEN Raise("Failed to parse GitHub response")
    ELSE ParseItems(cmd.stdout.items, <<>>)

fetch_issues(cmd) ==
    IF cmd.kind = "nonzero"
    THEN IF Contains(cmd.stderr, "not a git repository")
         THEN Raise("Not in a git repository")
         ELSE IF Contains(CalledProcessErrorStr, "gh: command not found")
         THEN Raise("gh CLI not found. Please install GitHub CLI: https://cli.github.com")
         ELSE Raise("Failed to fetch issues: " \o cmd.stderr)
    ELSE IF cmd.kind = "enoent"
    THEN Raise("Unexpected error: " \o FileNotFoundErrorStr)
    ELSE IF ~cmd.stdout.valid
    THEN Raise("Failed to parse GitHub response")
    ELSE ParseItems(cmd.stdout.items, <<>>)

\* The command outcomes the workers of this model meet.
Commands ==
    {Exit0(<<>>), Exit0(<<Item12, Item1>>), Exit0(<<ItemBadDate>>), CmdBadJson}

(***************************************************************************)
(* Every outcome of the command within MaxItems entries: the inputs of     *)
(* fetch_issues tried one by one (FetchSpec).                              *)
(***************************************************************************)
RECURSIVE Repeat(_, _)
Repeat(c, n) == IF n = 0 THEN "" ELSE c \o Repeat(c, n - 1)

\* Entries whose titles have TitleMax and TitleMax + 1 characters.
ItemTitle80 ==
    [number |-> 80, title |-> Repeat("t", TitleMax), createdAt |-> "2024-06-01",
     labels |-> <<[name |-> "docs"]>>,
     url |-> "https://github.com/acme/widgets/issues/80"]

ItemTitle81 ==
    [number |-> 81, title |-> Repeat("t", TitleMax + 1), createdAt |-> "2024-06-02T07:30:00Z",
     labels |-> <<>>,
     url |-> "https://github.com/acme/widgets/issues/81"]

Items == {Item1, Item12, ItemBadDate, ItemNoUrl, ItemTitle80, ItemTitle81}

\* The arrays gh can print: no issue number twice.
ItemArrays ==
    {a \in UNION {[1..n -> Items] : n \in 0..MaxItems} :
        \A i, j \in 1..Len(a) : i # j => a[i].number # a[j].number}

Stdouts ==
    {[valid |-> FALSE, items |-> <<>>]} \cup {[valid |-> TRUE, items |-> a] : a \in ItemArrays}

Stderrs ==
    {"",
     "fatal: not a git repository (or any of the parent directories): .git",
     "not a git repository; gh: command not found",
     "gh: command not found",
     "HTTP 401: Bad credentials"}

AllCommands ==
    {CmdNoGh} \cup
    {[kind |-> k, stdout |-> out, stderr |-> err] :
        k \in {"exit0", "nonzero"}, out \in Stdouts, err \in Stderrs}

(***************************************************************************)
(* The DataTable.  A row is [key, cells]; the key is the RowKey made from  *)
(* add_row's key argument, which holds no value when none is passed.       *)
(***************************************************************************)
RowKey(value) == [given |-> TRUE, value |-> value]

NoKey == [given |-> FALSE, value |-> ""]

\* A comparison in which a row without a key matches every issue.
KeyEqualsUnkeyed(key, text) == ~key.given \/ key.value = text

\* RowKey.__eq__ with a str (line 188): a key holding no value equals no string.
KeyEquals(key, text) == key.given /\ key.value = text

\* DataTable.add_row: [ok |-> FALSE] stands for DuplicateKey, raised when the
\* key's value is already the key of a row.
table_add_row(rs, cells, key) ==
    IF key.given /\ \E i \in 1..Len(rs) : rs[i].key = key
    THEN [ok |-> FALSE, rows |-> rs]
    ELSE [ok |-> TRUE, rows |-> Append(rs, [key |-> key, cells |-> cells])]

\* textual.geometry.clamp, which takes its limits in either order.
Clamp(value, minimum, maximum) ==
    LET lo == IF minimum > maximum THEN maximum ELSE minimum
        hi == IF minimum > maximum THEN minimum ELSE maximum
    IN  IF value < lo THEN lo ELSE IF value > hi THEN hi ELSE value

\* DataTable.is_valid_coordinate for the cursor's row.
ValidRow(rs, r) == 0 <= r /\ r < Len(rs)

\* add_row called without key=.
IssueRowKeyOmitted(issue) == NoKey

\* Lines 159-165: the key of an issue's row.
IssueRowKey(issue) == RowKey(Str(issue.number))

\* Lines 159-163: the cells of an issue's row.
IssueCells(issue) ==
    <<Str(issue.number), TruncateTitle(issue.title),
      FormatDate(issue.created_at).text, LabelsStr(issue.labels)>>

\* Line 143.
InfoCells == <<"", "No issues found", "", "">>

\* Line 168.
ErrorCells(msg) == <<"", msg, "", "">>

(***************************************************************************)
(* Workers.  pc is the next step of the thread: "clear" (137), "fetch"     *)
(* (140), "check" (142), "iter" (146), "row" (147-165), "except_row"       *)
(* (168), "except_assign" (169), then "done"; "failed" when an exception   *)
(* left the body.  result is what fetch_issues gave this worker, it and    *)
(* idx are the list the for loop iterates and its position, overlapped     *)
(* records that another worker was running during this one's life.         *)
(***************************************************************************)
Final == {"done", "failed", "cancelled"}

Running(w) == w.pc \notin Final

NewWorker(overlap) ==
    [pc |-> "clear", result |-> Raise(""), it |-> <<>>, idx |-> 0,
     overlapped |-> overlap]

\* A worker started with exclusive=True: the running workers are cancelled.
StartWorkerExclusive(ws) ==
    Append([i \in 1..Len(ws) |->
               IF Running(ws[i]) THEN [ws[i] EXCEPT !.pc = "cancelled"] ELSE ws[i]],
           NewWorker(FALSE))

\* self.load_issues() (lines 131, 202) under @work(thread=True) (line 133):
\* a new thread; the running ones go on.
StartWorker(ws) ==
    LET busy == \E i \in 1..Len(ws) : Running(ws[i])
    IN  Append([i \in 1..Len(ws) |->
                   IF Running(ws[i]) THEN [ws[i] EXCEPT !.overlapped = TRUE] ELSE ws[i]],
               NewWorker(busy))

Note(severity, message) == [severity |-> severity, message |-> message]

UiFrame == UNCHANGED <<uiPc, handler, notifications, launched>>

\* Lines 112-116: the controller as __init__ leaves it.
InitApp ==
    /\ app = "constructed"
    /\ exitReason = "none"
    /\ issues = <<>>
    /\ rows = <<>>
    /\ cursor_row = 0
    /\ workers = <<>>
    /\ uiPc = "idle"
    /\ handler = "none"
    /\ notifications = <<>>
    /\ launched = <<>>
    /\ issuesWriter = "ui"
    /\ tableWriter = "ui"

Init == InitApp /\ gh = Commands

\* Lines 124-131.
on_mount ==
    /\ app = "constructed"
    /\ app' = "running"
    /\ workers' = StartWorker(workers)
    /\ tableWriter' = "ui"
    /\ UNCHANGED <<exitReason, issues, rows, cursor_row, issuesWriter>>
    /\ UiFrame
    /\ UNCHANGED gh

\* Lines 136-137: table.clear(), which also puts the cursor back at (0, 0).
WorkerClear(w) ==
    /\ app = "running"
    /\ workers[w].pc = "clear"
    /\ rows' = <<>>
    /\ cursor_row' = 0
    /\ tableWriter' = "worker"
    /\ workers' = [workers EXCEPT ![w].pc = "fetch"]
    /\ UNCHANGED <<app, exitReason, issues, issuesWriter>>
    /\ UiFrame
    /\ UNCHANGED gh

\* Line 140: the command ends; fetch_issues returns and self.issues is assigned,
\* or it raises RuntimeError.
WorkerFetch(w) ==
    /\ app = "running"
    /\ workers[w].pc = "fetch"
    /\ \E cmd \in gh :
         LET r == fetch_issues(cmd)
         IN  IF r.ok
             THEN /\ issues' = r.issues
                  /\ issuesWriter' = "worker"
                  /\ workers' = [workers EXCEPT ![w].pc = "check", ![w].result = r]
             ELSE /\ workers' = [workers EXCEPT ![w].pc = "except_row", ![w].result = r]
                  /\ UNCHANGED <<issues, issuesWriter>>
    /\ UNCHANGED <<app, exitReason, rows, cursor_row, tableWriter>>
    /\ UiFrame
    /\ UNCHANGED gh

\* Lines 142-144.
WorkerCheck(w) ==
    /\ app = "running"
    /\ workers[w].pc = "check"
    /\ IF issues = <<>>
       THEN /\ rows' = table_add_row(rows, InfoCells, NoKey).rows
            /\ tableWriter' = "worker"
            /\ workers' = [workers EXCEPT ![w].pc = "done"]
       ELSE /\ workers' = [workers EXCEPT ![w].pc = "iter"]
            /\ UNCHANGED <<rows, tableWriter>>
    /\ UNCHANGED <<app, exitReason, issues, cursor_row, issuesWriter>>
    /\ UiFrame
    /\ UNCHANGED gh

\* Line 146: iter(self.issues); the loop keeps the list object it was given.
WorkerIter(w) ==
    /\ app = "running"
    /\ workers[w].pc = "iter"
    /\ workers' = [workers EXCEPT ![w].pc = IF issues = <<>> THEN "done" ELSE "row",
                                  ![w].it = issues, ![w].idx = 1]
    /\ UNCHANGED <<app, exitReason, issues, rows, cursor_row, issuesWriter, tableWriter>>
    /\ UiFrame
    /\ UNCHANGED gh

\* Lines 147-165, one pass of the loop.  A ValueError of fromisoformat or a
\* DuplicateKey of add_row is no RuntimeError: it leaves load_issues, and the
\* worker (exit_on_error) ends the application.
WorkerRow(w) ==
    /\ app = "running"
    /\ workers[w].pc = "row"
    /\ \E issue \in {workers[w].it[workers[w].idx]} :
       \E date \in {FormatDate(issue.created_at)} :
       \E added \in {table_add_row(rows, IssueCells(issue), IssueRowKey(issue))} :
           IF date.ok /\ added.ok
           THEN /\ rows' = added.rows
                /\ tableWriter' = "worker"
                /\ workers' = [workers EXCEPT
                       ![w].pc = IF workers[w].idx = Len(workers[w].it) THEN "done" ELSE "row",
                       ![w].idx = workers[w].idx + 1]
                /\ UNCHANGED <<app, exitReason>>
           ELSE /\ workers' = [workers EXCEPT ![w].pc = "failed"]
                /\ app' = "exited"
                /\ exitReason' = "worker_error"
                /\ UNCHANGED <<rows, tableWriter>>
    /\ UNCHANGED <<issues, cursor_row, issuesWriter>>
    /\ UiFrame
    /\ UNCHANGED gh

\* Line 168.
WorkerExceptRow(w) ==
    /\ app = "running"
    /\ workers[w].pc = "except_row"
    /\ rows' = table_add_row(rows, ErrorCells(workers[w].result.error), NoKey).rows
    /\ tableWriter' = "worker"
    /\ workers' = [workers EXCEPT ![w].pc = "except_assign"]
    /\ UNCHANGED <<app, exitReason, issues, cursor_row, issuesWriter>>
    /\ UiFrame
    /\ UNCHANGED gh

\* An except branch that shows the error row and keeps the list it found.
WorkerExceptAssignSkipped(w) ==
    /\ app = "running"
    /\ workers[w].pc = "except_assign"
    /\ workers' = [workers EXCEPT ![w].pc = "done"]
    /\ UNCHANGED <<app, exitReason, issues, issuesWriter, rows, cursor_row, tableWriter>>
    /\ UiFrame
    /\ UNCHANGED gh

\* Line 169.
WorkerExceptAssign(w) ==
    /\ app = "running"
    /\ workers[w].pc = "except_assign"
    /\ issues' = <<>>
    /\ issuesWriter' = "worker"
    /\ workers' = [workers EXCEPT ![w].pc = "done"]
    /\ UNCHANGED <<app, exitReason, rows, cursor_row, tableWriter>>
    /\ UiFrame
    /\ UNCHANGED gh

\* A key handler that resets the in-memory list.
WorkerFrameResetsList == issues' = <<>> /\ UNCHANGED <<rows, issuesWriter, tableWriter>>

WorkerFrame == UNCHANGED <<issues, rows, issuesWriter, tableWriter>>

\* Lines 175-181: "pass" when the handler goes on to the try block.
OpenGuardNoEmptyCheck(list, cursor) ==
    IF cursor < 0 THEN "no_row" ELSE "pass"

OpenGuard(list, cursor) ==
    IF list = <<>> THEN "no_issues"
    ELSE IF cursor < 0 THEN "no_row"
    ELSE "pass"

\* Lines 171-181.
action_open_issue ==
    /\ app = "running"
    /\ uiPc = "idle"
    /\ handler' = "open"
    /\ launched' = <<>>
    /\ LET g == OpenGuard(issues, cursor_row)
       IN  /\ notifications' =
                 IF g = "no_issues" THEN <<Note("warning", "No issues loaded")>>
                 ELSE IF g = "no_row" THEN <<Note("warning", "No row selected")>>
                 ELSE <<>>
           /\ uiPc' = IF g = "pass" THEN "open_lookup" ELSE "idle"
    /\ UNCHANGED <<app, exitReason, cursor_row, workers>>
    /\ WorkerFrame
    /\ UNCHANGED gh

\* next(iter(list)): the first issue, whatever the key.
FindFirst(list, key) == IF list = <<>> THEN {} ELSE {1}

\* Line 188: the positions of the issues whose str(number) equals the key; next()
\* takes the least, None when there is none.
FindIssue(list, key) == {i \in 1..Len(list) : KeyEquals(key, Str(list[i].number))}

Least(S) == CHOOSE i \in S : \A j \in S : i <= j

\* Lines 183-197.  coordinate_to_cell_key raises CellDoesNotExist when the cursor
\* is on no row; webbrowser.open may raise; both are caught at line 196.
open_lookup ==
    /\ app = "running"
    /\ uiPc = "open_lookup"
    /\ uiPc' = "idle"
    /\ IF ~ValidRow(rows, cursor_row)
       THEN /\ notifications' = <<Note("error", "Failed to open issue: ")>>
            /\ launched' = <<>>
       ELSE LET key == rows[cursor_row + 1].key
                found == FindIssue(issues, key)
            IN  IF found = {}
                THEN /\ notifications' =
                          <<Note("information", "Debug: row_key="),
                            Note("error", "Could not find issue with key: ")>>
                     /\ launched' = <<>>
                ELSE LET issue == issues[Least(found)]
                     IN  /\ launched' = <<issue.url>>
                         /\ \E raised \in BOOLEAN :
                              notifications' =
                                  <<Note("information", "Debug: row_key="),
                                    Note("information",
                                         "Debug: Found issue #" \o Str(issue.number)),
                                    IF raised
                                    THEN Note("error", "Failed to open issue: ")
                                    ELSE Note("information",
                                              "Opening issue #" \o Str(issue.number))>>
    /\ UNCHANGED <<app, exitReason, cursor_row, workers, handler>>
    /\ WorkerFrame
    /\ UNCHANGED gh

\* A refresh that leaves the second notice to the worker.
action_refresh_quiet ==
    /\ app = "running"
    /\ uiPc = "idle"
    /\ Len(workers) < MaxWorkers
    /\ handler' = "refresh"
    /\ notifications' = <<Note("information", "Refreshing issues...")>>
    /\ launched' = <<>>
    /\ workers' = StartWorker(workers)
    /\ UNCHANGED <<app, exitReason, cursor_row, uiPc>>
    /\ WorkerFrame
    /\ UNCHANGED gh

\* A refresh that would wait for the fetch in flight before taking the key.
action_refresh_blocking ==
    /\ app = "running"
    /\ uiPc = "idle"
    /\ Len(workers) < MaxWorkers
    /\ \A w \in 1..Len(workers) : ~Running(workers[w])
    /\ handler' = "refresh"
    /\ notifications' = <<Note("information", "Refreshing issues..."),
                          Note("information", "Issues refreshed")>>
    /\ launched' = <<>>
    /\ workers' = StartWorker(workers)
    /\ UNCHANGED <<app, exitReason, cursor_row, uiPc>>
    /\ WorkerFrame
    /\ UNCHANGED gh

\* Lines 199-203.
action_refresh ==
    /\ app = "running"
    /\ uiPc = "idle"
    /\ Len(workers) < MaxWorkers
    /\ handler' = "refresh"
    /\ notifications' = <<Note("information", "Refreshing issues..."),
                          Note("information", "Issues refreshed")>>
    /\ launched' = <<>>
    /\ workers' = StartWorker(workers)
    /\ UNCHANGED <<app, exitReason, cursor_row, uiPc>>
    /\ WorkerFrame
    /\ UNCHANGED gh

\* Line 108: App.action_quit.
action_quit ==
    /\ app = "running"
    /\ uiPc = "idle"
    /\ app' = "exited"
    /\ exitReason' = "quit"
    /\ handler' = "quit"
    /\ notifications' = <<>>
    /\ launched' = <<>>
    /\ UNCHANGED <<cursor_row, workers, uiPc>>
    /\ WorkerFrame
    /\ UNCHANGED gh

\* Line 121: the DataTable's own up and down bindings move the row cursor.
action_cursor(delta) ==
    /\ app = "running"
    /\ uiPc = "idle"
    /\ cursor_row' = Clamp(cursor_row + delta, 0, Len(rows) - 1)
    /\ UNCHANGED <<app, exitReason, workers>>
    /\ UiFrame
    /\ WorkerFrame
    /\ UNCHANGED gh

WorkerStep ==
    \E w \in 1..Len(workers) :
        \/ WorkerClear(w)
        \/ WorkerFetch(w)
        \/ WorkerCheck(w)
        \/ WorkerIter(w)
        \/ WorkerRow(w)
        \/ WorkerExceptRow(w)
        \/ WorkerExceptAssign(w)

Next ==
    \/ on_mount
    \/ WorkerStep
    \/ action_open_issue
    \/ open_lookup
    \/ action_refresh
    \/ action_quit
    \/ action_cursor(-1)
    \/ action_cursor(1)

Spec == Init /\ [][Next]_vars

(***************************************************************************)
(* fetch_issues and the table it fills, input by input: one run per        *)
(* outcome of the command, the startup worker alone.                       *)
(***************************************************************************)
FetchInit == InitApp /\ gh \in {{c} : c \in AllCommands}

FetchNext == on_mount \/ WorkerStep

FetchSpec == FetchInit /\ [][FetchNext]_vars

\* The command ends and every thread that can step is scheduled.
FairSpec == Spec /\ WF_vars(WorkerStep) /\ WF_vars(open_lookup)

(***************************************************************************)
(* Vocabulary of the properties.                                           *)
(***************************************************************************)
WorkerIds == 1..Len(workers)

\* The issues of a list whose stringified number is the value of a row key.
Matching(key, list) == {i \in 1..Len(list) : key.given /\ key.value = Str(list[i].number)}

HasSeverity(notes, severity) == \E i \in 1..Len(notes) : notes[i].severity = severity

\* Worker w ends its body normally in this step.
Completes(w) == w \in WorkerIds /\ workers[w].pc # "done" /\ workers'[w].pc = "done"

\* No worker but w is running after this step.
NoOtherInFlight(w) == \A v \in 1..Len(workers') : v # w => ~Running(workers'[v])

WellFormed(list) == \A i \in 1..Len(list) : FormatDate(list[i].created_at).ok

\* The worker has left fetch_issues: its result is the fetch's.
Fetched(w) == w \in WorkerIds /\ workers[w].pc \notin {"clear", "fetch"}

\* The outcome of the command in a run that has one.
TheCommand == CHOOSE c \in gh : TRUE

\* An entry that carries all five requested fields.
WellFormedItem(item) == {"number", "title", "createdAt", "labels", "url"} \subseteq DOMAIN item

(***************************************************************************)
(* C1 (as claimed): in every reachable state each table row that carries   *)
(* an issue key corresponds to exactly one issue of the in-memory list     *)
(* with that stringified number.  Overlapping workers break it.            *)
(***************************************************************************)
C1_LockStep ==
    \A i \in 1..Len(rows) :
        rows[i].key.given => Cardinality(Matching(rows[i].key, issues)) = 1

(***************************************************************************)
(* C2 (as claimed): whenever the open handler runs with the cursor on a    *)
(* row whose key matches no issue of the in-memory list, it ends with an   *)
(* error notification and no browser launch.  With an empty list the       *)
(* handler ends at line 177 with a warning instead.                        *)
(***************************************************************************)
C2_Original ==
    [][(/\ action_open_issue \/ open_lookup
        /\ uiPc' = "idle"
        /\ ValidRow(rows, cursor_row)
        /\ Matching(rows[cursor_row + 1].key, issues) = {})
       => (HasSeverity(notifications', "error") /\ launched' = <<>>)]_vars

(***************************************************************************)
(* C2 (amended): whenever the open handler, having passed the checks of    *)
(* lines 175-181, looks up (line 188) the key of the cursor's row and it   *)
(* matches no issue of the in-memory list, it ends with an error           *)
(* notification and no browser launch; and a browser launch is only ever   *)
(* made by that lookup, with the URL of the one issue of the list whose    *)
(* stringified number is the key of the cursor's row.                      *)
(***************************************************************************)
C2_OpenLookup ==
    [][/\ (/\ open_lookup
           /\ ValidRow(rows, cursor_row)
           /\ Matching(rows[cursor_row + 1].key, issues) = {})
          => (HasSeverity(notifications', "error") /\ launched' = <<>>)
       /\ (launched' # <<>> /\ (action_open_issue \/ open_lookup \/ launched' # launched))
          => /\ open_lookup
             /\ ValidRow(rows, cursor_row)
             /\ \E i \in Matching(rows[cursor_row + 1].key, issues) :
                  /\ launched' = <<issues[i].url>>
                  /\ Matching(rows[cursor_row + 1].key, issues) = {i}]_vars

\* The lookup has missed: an error notice about the key, nothing launched.
C2_Witness ==
    /\ handler = "open" /\ uiPc = "idle"
    /\ Len(notifications) = 2
    /\ notifications[2] = Note("error", "Could not find issue with key: ")
    /\ launched = <<>>
    /\ issues # <<>>
    /\ ValidRow(rows, cursor_row)
    /\ Matching(rows[cursor_row + 1].key, issues) = {}

C4_OnlyQuitTerminates == app = "exited" => exitReason = "quit"

(***************************************************************************)
(* C5 (as claimed): when a worker whose fetch failed completes and no      *)
(* other worker is in flight, the table holds exactly one row, it shows    *)
(* the error message, and the in-memory list is empty.                     *)
(***************************************************************************)
C5_ErrorRowAlone ==
    [][\A w \in WorkerIds :
         (Completes(w) /\ ~workers'[w].result.ok /\ NoOtherInFlight(w))
         => /\ Len(rows') = 1
            /\ rows'[1].cells = <<"", workers'[w].result.error, "", "">>
            /\ issues' = <<>>]_vars

(***************************************************************************)
(* C6 (as claimed): when a worker whose fetch returned zero issues         *)
(* completes and no other worker is in flight, the table holds exactly one *)
(* row whose title cell is "No issues found", and the list is empty.       *)
(***************************************************************************)
C6_InfoRowAlone ==
    [][\A w \in WorkerIds :
         (/\ Completes(w)
          /\ workers'[w].result.ok /\ workers'[w].result.issues = <<>>
          /\ NoOtherInFlight(w))
         => /\ Len(rows') = 1
            /\ rows'[1].cells[2] = "No issues found"
            /\ issues' = <<>>]_vars

(***************************************************************************)
(* C7: when a worker whose fetch returned N >= 1 well-formed issues        *)
(* completes, and no other worker ran during its life, the table holds     *)
(* exactly N rows, in the order of the fetched list, the i-th row's key    *)
(* being the stringified number of the i-th issue.                         *)
(***************************************************************************)
C7_RowsFollowFetch ==
    [][\A w \in WorkerIds :
         (/\ Completes(w)
          /\ workers'[w].result.ok /\ workers'[w].result.issues # <<>>
          /\ WellFormed(workers'[w].result.issues)
          /\ ~workers'[w].overlapped)
         => /\ Len(rows') = Len(workers'[w].result.issues)
            /\ \A i \in 1..Len(rows') :
                 rows'[i].key =
                     [given |-> TRUE, value |-> Str(workers'[w].result.issues[i].number)]]_vars

\* A refresh's worker, alone, has put two fetched issues in the table.
C7_Witness ==
    /\ Len(workers) = 2
    /\ workers[2].pc = "done" /\ ~workers[2].overlapped
    /\ workers[2].result.ok /\ Len(workers[2].result.issues) = 2
    /\ Len(rows) = 2
    /\ rows[1].key.value = "12" /\ rows[2].key.value = "1"

(***************************************************************************)
(* C8 (as claimed): with the command returning and the threads scheduled   *)
(* fairly, every load_issues cycle that has begun (on_mount's or a         *)
(* refresh's) is eventually followed by its worker having completed, the   *)
(* table then showing the issues, the informational row or the error row;  *)
(* the explicit quit aside.  A worker that an exception ends never         *)
(* completes.                                                              *)
(***************************************************************************)
C8_EveryCycleCompletes ==
    \A w \in 1..MaxWorkers :
        (Len(workers) >= w)
            ~> ((Len(workers) >= w /\ workers[w].pc = "done") \/ exitReason = "quit")

(***************************************************************************)
(* C9: a refresh cancels no worker: it leaves every earlier worker where   *)
(* it stood and adds one that starts at table.clear(); no worker is ever   *)
(* cancelled.  (That the stale worker can finish last is C9_Witness.)      *)
(***************************************************************************)
C9_RefreshCancelsNothing ==
    [][/\ action_refresh
          => /\ Len(workers') = Len(workers) + 1
             /\ workers'[Len(workers')].pc = "clear"
             /\ \A w \in WorkerIds : workers'[w].pc = workers[w].pc
       /\ \A w \in 1..Len(workers') : workers'[w].pc # "cancelled"]_vars

\* Both workers have completed, the refresh was made while the first one ran, and
\* the list and the last table row are those of the first, stale fetch.
C9_Witness ==
    /\ app = "running"
    /\ Len(workers) = 2
    /\ workers[1].pc = "done" /\ workers[2].pc = "done"
    /\ workers[2].overlapped
    /\ workers[1].result.ok /\ workers[2].result.ok
    /\ workers[1].result.issues # workers[2].result.issues
    /\ issues = workers[1].result.issues
    /\ issues # <<>>
    /\ rows # <<>>
    /\ rows[Len(rows)].key.value = Str(issues[Len(issues)].number)

(***************************************************************************)
(* C10 (as claimed): self.issues and the DataTable are written only from   *)
(* the UI thread.  The body of load_issues runs in the worker thread.      *)
(***************************************************************************)
C10_WrittenFromUiThread == issuesWriter = "ui" /\ tableWriter = "ui"

(***************************************************************************)
(* C11: while a fetch is in flight (a worker stands in fetch_issues, where *)
(* nothing obliges the command to return), the UI keeps dispatching: with  *)
(* no handler under way the open, refresh and quit actions are enabled     *)
(* (refresh as long as this model starts workers), a handler under way can *)
(* finish, and every other running worker can take its next step; the      *)
(* fetch holds back its own cycle only.                                    *)
(***************************************************************************)
C11_InputDuringFetch ==
    \A w \in WorkerIds :
        (app = "running" /\ workers[w].pc = "fetch") =>
            /\ uiPc = "idle" =>
                    /\ ENABLED action_open_issue
                    /\ ENABLED action_quit
                    /\ Len(workers) < MaxWorkers => ENABLED action_refresh
            /\ uiPc = "open_lookup" => ENABLED open_lookup
            /\ \A v \in WorkerIds :
                    (v # w /\ Running(workers[v])) =>
                        ENABLED (\/ WorkerClear(v) \/ WorkerFetch(v) \/ WorkerCheck(v)
                                 \/ WorkerIter(v) \/ WorkerRow(v)
                                 \/ WorkerExceptRow(v) \/ WorkerExceptAssign(v))

\* The startup fetch still in flight after a refresh started a second cycle
\* that completed, with an open handled meanwhile.
C11_Witness ==
    /\ app = "running"
    /\ Len(workers) = 2
    /\ workers[1].pc = "fetch"
    /\ workers[2].pc = "done"
    /\ handler = "open"
    /\ uiPc = "idle"

(***************************************************************************)
(* C12: when the gh executable cannot be started, fetch_issues fails with  *)
(* the message "gh CLI not found" followed by the install pointer, and     *)
(* with no other message.                                                  *)
(***************************************************************************)
C12_MissingToolMessage ==
    \A w \in WorkerIds :
        (Fetched(w) /\ TheCommand.kind = "enoent") =>
            workers[w].result =
                Raise("gh CLI not found. Please install GitHub CLI: https://cli.github.com")

(***************************************************************************)
(* C13 as stated: for every run of the command whose error stream contains *)
(* "not a git repository", whatever its exit status and standard output,   *)
(* fetch_issues fails with exactly "Not in a git repository".              *)
(***************************************************************************)
C13_Original ==
    \A w \in WorkerIds :
        (Fetched(w) /\ Contains(TheCommand.stderr, "not a git repository")) =>
            workers[w].result = Raise("Not in a git repository")

(***************************************************************************)
(* C13 amended: for every run of the command that exits with a non-zero    *)
(* status and whose error stream contains "not a git repository",          *)
(* fetch_issues fails with exactly "Not in a git repository", whatever     *)
(* else the error stream holds and whatever was written to standard        *)
(* output.                                                                 *)
(***************************************************************************)
C13_NotGitRepository ==
    \A w \in WorkerIds :
        (/\ Fetched(w)
         /\ TheCommand.kind = "nonzero"
         /\ Contains(TheCommand.stderr, "not a git repository")) =>
            workers[w].result = Raise("Not in a git repository")

\* A failed run whose error stream also matches the other error kind and
\* whose standard output is a well-formed array.
C13_Witness ==
    /\ Fetched(1)
    /\ TheCommand.kind = "nonzero"
    /\ TheCommand.stderr = "not a git repository; gh: command not found"
    /\ TheCommand.stdout.valid
    /\ Len(TheCommand.stdout.items) = MaxItems
    /\ workers[1].result.error = "Not in a git repository"

(***************************************************************************)
(* C14: for every successful output that is a JSON array of N well-formed  *)
(* entries, fetch_issues returns exactly N Issue records in the same       *)
(* order, the i-th carrying the i-th entry's number, title, createdAt and  *)
(* url unchanged and its labels as the entry's label names in order.       *)
(***************************************************************************)
C14_LosslessMapping ==
    \A w \in WorkerIds :
        (/\ Fetched(w)
         /\ TheCommand.kind = "exit0"
         /\ TheCommand.stdout.valid
         /\ \A i \in 1..Len(TheCommand.stdout.items) :
                WellFormedItem(TheCommand.stdout.items[i])) =>
            LET items == TheCommand.stdout.items
                r == workers[w].result
            IN  /\ r.ok
                /\ Len(r.issues) = Len(items)
                /\ \A i \in 1..Len(items) :
                       /\ r.issues[i].number = items[i].number
                       /\ r.issues[i].title = items[i].title
                       /\ r.issues[i].created_at = items[i].createdAt
                       /\ r.issues[i].url = items[i].url
                       /\ Len(r.issues[i].labels) = Len(items[i].labels)
                       /\ \A k \in 1..Len(items[i].labels) :
                              r.issues[i].labels[k] = items[i].labels[k].name

\* A fetch of MaxItems entries, one of them with two labels.
C14_Witness ==
    /\ Fetched(1)
    /\ workers[1].result.ok
    /\ Len(workers[1].result.issues) = MaxItems
    /\ \E i \in 1..Len(workers[1].result.issues) :
           workers[1].result.issues[i].labels = <<"bug", "ui">>
    /\ \A i \in 1..Len(TheCommand.stdout.items) : WellFormedItem(TheCommand.stdout.items[i])

(***************************************************************************)
(* C15: the title shown in an issue's row is the issue title when it has   *)
(* at most 80 characters, and otherwise its first 77 characters followed   *)
(* by "..."; a shown title never exceeds 80 characters, a title of 81 is   *)
(* shown as 80 characters and a title of 80 is shown untouched.            *)
(***************************************************************************)
C15_TitleShown ==
    \A i \in 1..Len(rows) :
        (rows[i].key.given /\ Len(workers) = 1 /\ i <= Len(workers[1].it)) =>
            LET title == workers[1].it[i].title
                shown == rows[i].cells[2]
            IN  /\ Len(title) <= 80 => shown = title
                /\ Len(title) > 80 => shown = SubSeq(title, 1, 77) \o "..."
                /\ Len(shown) <= 80
                /\ Len(title) = 81 => Len(shown) = 80

\* Both boundary titles in the table: 80 characters untouched, 81 cut to 80.
C15_Witness ==
    /\ Len(rows) = 2
    /\ Len(workers) = 1
    /\ Len(workers[1].it) = 2
    /\ Len(workers[1].it[1].title) = 80
    /\ rows[1].cells[2] = workers[1].it[1].title
    /\ Len(workers[1].it[2].title) = 81
    /\ Len(rows[2].cells[2]) = 80
    /\ SubSeq(rows[2].cells[2], 78, 80) = "..."

(***************************************************************************)
(* C16: the in-memory list is replaced wholesale by each fetch: when a     *)
(* load_issues worker that never ran beside another completes, the list    *)
(* is exactly that fetch's result (empty on failure), so nothing of an     *)
(* earlier fetch remains unless the new result holds it; and every change  *)
(* of the list sets it to a whole fetch result or to the empty list.       *)
(***************************************************************************)
C16_ReplacedWholesale ==
    [][/\ \A w \in WorkerIds :
            (Completes(w) /\ ~workers'[w].overlapped) =>
                issues' = workers'[w].result.issues
       /\ issues' # issues =>
            \/ issues' = <<>>
            \/ \E w \in WorkerIds :
                   /\ workers[w].pc = "fetch"
                   /\ workers'[w].result.ok
                   /\ issues' = workers'[w].result.issues]_vars

\* A refresh's fetch failed after the startup fetch had loaded issues: the
\* list is empty again.
C16_Witness ==
    /\ Len(workers) = 2
    /\ workers[1].pc = "done" /\ workers[1].result.ok /\ workers[1].result.issues # <<>>
    /\ workers[2].pc = "done" /\ ~workers[2].overlapped /\ ~workers[2].result.ok
    /\ issues = <<>>

(***************************************************************************)
(* C17: action_open_issue changes no controller state: in every branch     *)
(* (warning, issue found and browser launched, key not found, exception    *)
(* caught) the in-memory list, the table rows, the cursor and the          *)
(* load cycles' positions are after the action what they were before; it   *)
(* produces notifications and at most one browser launch.                  *)
(***************************************************************************)
C17_OpenChangesNothing ==
    [][(action_open_issue \/ open_lookup) =>
            /\ UNCHANGED <<issues, rows, cursor_row, workers, app, exitReason,
                           issuesWriter, tableWriter>>
            /\ Len(launched') <= 1]_vars

\* The branch in which the browser launch raised: the exception was caught,
\* list and table are in place.
C17_Witness ==
    /\ handler = "open" /\ uiPc = "idle"
    /\ launched # <<>>
    /\ Len(notifications) = 3
    /\ notifications[3] = Note("error", "Failed to open issue: ")
    /\ issues # <<>>
    /\ rows # <<>>
    /\ app = "running"

(***************************************************************************)
(* C18: each action_refresh emits "Refreshing issues..." and then "Issues  *)
(* refreshed", in that order, in the UI step that starts the fetch worker, *)
(* without waiting for the fetch: the new worker has not yet run when both *)
(* notices are out.                                                        *)
(***************************************************************************)
C18_RefreshedBeforeFetch ==
    [][action_refresh =>
            /\ Len(notifications') = 2
            /\ notifications'[1].message = "Refreshing issues..."
            /\ notifications'[2].message = "Issues refreshed"
            /\ Len(workers') = Len(workers) + 1
            /\ workers'[Len(workers')].pc = "clear"]_vars

\* "Issues refreshed" has been shown and the refresh's cycle is still Loading,
\* its worker waiting for the command.
C18_Witness ==
    /\ handler = "refresh"
    /\ Len(notifications) = 2
    /\ notifications[2] = Note("information", "Issues refreshed")
    /\ Len(workers) = 2
    /\ workers[2].pc = "fetch"

(***************************************************************************)
(* C19: the informational row and the error row carry no issue key, so in  *)
(* every reachable state, also where overlapping workers left such a row   *)
(* beside a non-empty in-memory list, an open with the cursor on such a    *)
(* row, or on a table with no rows, launches no browser.                   *)
(***************************************************************************)
C19_NoLaunchFromUnkeyedRow ==
    [][((action_open_issue \/ open_lookup)
        /\ (\/ rows = <<>>
            \/ ~ValidRow(rows, cursor_row)
            \/ rows[cursor_row + 1].cells[1] = "")) =>
            launched' = <<>>]_vars

\* An open on the "No issues found" row while the list holds issues.
C19_Witness ==
    /\ handler = "open" /\ uiPc = "idle"
    /\ issues # <<>>
    /\ ValidRow(rows, cursor_row)
    /\ rows[cursor_row + 1].cells = InfoCells
    /\ Len(notifications) = 2
    /\ notifications[2].severity = "error"
    /\ launched = <<>>
====
